---- MODULE Spec2Model ----
(***************************************************************************)
(* NetBuffer<T> (src/main.cpp) over the block pool of                      *)
(* src/StupidAlocator.hpp, as a state machine.                             *)
(*                                                                         *)
(* Memory is modelled word by word where the code depends on it: a pool    *)
(* block is an array of MIDDLE_SIZE Link entries, and the pool's free-list *)
(* link (union Block::next) overlays the first word of the block, which is *)
(* entry 0's child/data pointer.  Memory that was never written holds      *)
(* INDET.  A released block keeps its old contents except for that word.   *)
(*                                                                         *)
(* Each member function is an operator from the state a call finds to the  *)
(* state it leaves and how it ended; the actions commit the results.       *)
(*                                                                         *)
(* The traits name LocalMemPool<CHUNK_SIZE> as T::Allocator; of the pools  *)
(* with that interface (static alloc and free) the sources hold            *)
(* StupidAllocator, and that is the pool here.                             *)
(*                                                                         *)
(* Three specifications: Spec, every call of the buffer (alloc, unalloc,   *)
(* begin, free, destruction) with the pool failing or not; SpecOK, alloc,  *)
(* unalloc and begin on a pool that does not fail; SpecPool, the pool by   *)
(* itself under any holders of its blocks.                                 *)
(***************************************************************************)
EXTENDS Integers, Sequences, FiniteSets, TLC

VARIABLES
    m_Begin,    \* NetBuffer::m_Begin
    m_End,      \* NetBuffer::m_End
    m_Root,     \* NetBuffer::m_Root[L0_SIZE], each a Link [child, size]
    mem,        \* contents of the pool's blocks: block -> index -> Link
    m_Next,     \* StupidAllocator::m_Next, head of the free list
    m_Count,    \* StupidAllocator::m_Count
    arenas,     \* number of arenas fill() has obtained
    status,     \* "run", "destroyed", "aborted" (assert failed) or "crashed" (invalid access)
    call,       \* the last call: the operation and how it ended
    made,       \* history: the leaf chunk alloc created for each aligned offset
    held,       \* history: the blocks the pool handed out and did not get back
    calls       \* history: the number of calls made, where the behaviour counts them

vars == <<m_Begin, m_End, m_Root, mem, m_Next, m_Count, arenas,
          status, call, made, held, calls>>

(***************************************************************************)
(* Configuration: the traits of NetBuffer<T>, instantiated at the smallest *)
(* values the static_asserts of src/main.cpp:60-64 accept for a 16-byte    *)
(* Link, and the tree height of NetBufferTraitsBase.                       *)
(***************************************************************************)
CHUNK_SIZE == 32
L0_SIZE == 2
HEIGHT == 3
SIZEOF_LINK == 16
COUNT == 16

(* Bounds of the model. *)
WordBits == 10          \* width of size_t / uintptr_t in the model
MaxArenas == 2          \* arenas the system hands out before new[] must fail
MaxEndSteps == 10       \* calls that would move m_End past this many half chunks are not made
MaxCalls == 3           \* calls in one behaviour of the whole interface
InitFree == 3           \* longest free list another owner leaves behind
MaxPoolCalls == 6       \* calls in one behaviour of the pool's own interface
PoolActive == 4         \* holders of blocks further into an arena keep them untouched

RECURSIVE Pow(_, _)
Pow(BASE, POWER) == IF POWER = 0 THEN 1 ELSE BASE * Pow(BASE, POWER - 1)

RECURSIVE Log(_)
Log(SIZE) == IF SIZE = 1 THEN 0 ELSE 1 + Log(SIZE \div 2)

WORD == Pow(2, WordBits)
MIDDLE_SIZE == CHUNK_SIZE \div SIZEOF_LINK
SUBTREE_CARDINALITY == CHUNK_SIZE * Pow(MIDDLE_SIZE, HEIGHT - 2)
CARDINALITY == L0_SIZE * SUBTREE_CARDINALITY
MaxBlocks == COUNT * MaxArenas

(* Pointer values: the blocks are 1..MaxBlocks. *)
NULL == 0
WILD == 0 - 1           \* an address (or word) that is neither null nor a block
INDET == 0 - 2          \* a word that was never written
ROOT == 0 - 3           \* in a reference: the entry lies in m_Root

(* size_t arithmetic. *)
Wrap(x) == x % WORD

RECURSIVE BitAnd(_, _)
BitAnd(x, y) ==
    IF x = 0 \/ y = 0 THEN 0
    ELSE 2 * BitAnd(x \div 2, y \div 2) + (IF x % 2 = 1 /\ y % 2 = 1 THEN 1 ELSE 0)

BitNot(x) == WORD - 1 - x
Shr(x, k) == x \div Pow(2, k)
Min(a, b) == IF a < b THEN a ELSE b

(***************************************************************************)
(* The running state of one call: the program's state, plus what the       *)
(* environment decides during the call (grant: how many new[] succeed;     *)
(* ind: what a never-written word reads as), plus how far the call got.    *)
(***************************************************************************)
Stopped(s) == s.exc # "none" \/ s.fault

Fault(s) == [s EXCEPT !.fault = TRUE]

Throw(s) == [s EXCEPT !.exc = "bad_alloc"]

ValidBlk(s, p) == p \in 1..(COUNT * s.arenas)

RefOK(s, r) ==
    \/ r.blk = ROOT /\ r.idx \in 0..(L0_SIZE - 1)
    \/ ValidBlk(s, r.blk) /\ r.idx \in 0..(MIDDLE_SIZE - 1)

RdLink(s, r) == IF r.blk = ROOT THEN s.root[r.idx] ELSE s.mem[r.blk][r.idx]

RdChild(s, r) ==
    LET v == RdLink(s, r).child IN IF v = INDET THEN s.ind ELSE v

RdSize(s, r) ==
    LET v == RdLink(s, r).size
    IN IF v = INDET THEN (IF s.ind = NULL THEN 0 ELSE WILD) ELSE v

WrChild(s, r, v) ==
    IF ~RefOK(s, r) THEN Fault(s)
    ELSE IF r.blk = ROOT THEN [s EXCEPT !.root[r.idx].child = v]
    ELSE [s EXCEPT !.mem[r.blk][r.idx].child = v]

WrSize(s, r, v) ==
    IF ~RefOK(s, r) THEN Fault(s)
    ELSE IF r.blk = ROOT THEN [s EXCEPT !.root[r.idx].size = v]
    ELSE [s EXCEPT !.mem[r.blk][r.idx].size = v]

(***************************************************************************)
(* StupidAllocator.  An operator that continues a step takes the state the *)
(* step left as its first parameter.                                       *)
(***************************************************************************)
(* A variant whose loop stops one block early. *)
fill_one_short(s) ==
    IF s.grant = 0 \/ s.arenas >= MaxArenas THEN Throw(s)
    ELSE [s EXCEPT
            !.arenas = @ + 1,
            !.grant = @ - 1,
            !.mem = [b \in DOMAIN s.mem |->
                       IF b \in (COUNT * s.arenas + 1)..(COUNT * s.arenas + COUNT - 1)
                       THEN [s.mem[b] EXCEPT
                               ![0].child = IF b = COUNT * s.arenas + 1
                                            THEN s.next ELSE b - 1]
                       ELSE s.mem[b]],
            !.next = COUNT * s.arenas + COUNT - 1]

(* fill(): new Block[COUNT], threaded onto the free list; new[] may throw. *)
fill(s) ==
    IF s.grant = 0 \/ s.arenas >= MaxArenas THEN Throw(s)
    ELSE [s EXCEPT
            !.arenas = @ + 1,
            !.grant = @ - 1,
            !.mem = [b \in DOMAIN s.mem |->
                       IF b \in (COUNT * s.arenas + 1)..(COUNT * s.arenas + COUNT)
                       THEN [s.mem[b] EXCEPT
                               ![0].child = IF b = COUNT * s.arenas + 1
                                            THEN s.next ELSE b - 1]
                       ELSE s.mem[b]],
            !.next = COUNT * s.arenas + COUNT]

(* Block *sRes = m_Next; m_Next = m_Next->next; m_Count++; return sRes->data *)
internal_alloc_pop(s1) ==
    IF Stopped(s1) THEN [s |-> s1, r |-> NULL]
    ELSE IF ~ValidBlk(s1, s1.next) THEN [s |-> Fault(s1), r |-> NULL]
    ELSE [s |-> [s1 EXCEPT !.next = s1.mem[s1.next][0].child,
                           !.count = Wrap(@ + 1),
                           !.held = @ \cup {s1.next}],
          r |-> s1.next]

internal_alloc(s) == internal_alloc_pop(IF s.next = NULL THEN fill(s) ELSE s)

(* A variant that does not store the link: b->next keeps what it held. *)
internal_free_keep_link(s, aPtr) ==
    IF ~ValidBlk(s, aPtr) THEN Fault(s)
    ELSE [s EXCEPT !.next = aPtr,
                   !.count = Wrap(@ - 1),
                   !.held = @ \ {aPtr}]

(* b->next = m_Next; m_Next = b; --m_Count; *)
internal_free(s, aPtr) ==
    IF ~ValidBlk(s, aPtr) THEN Fault(s)
    ELSE [s EXCEPT !.mem[aPtr][0].child = s.next,
                   !.next = aPtr,
                   !.count = Wrap(@ - 1),
                   !.held = @ \ {aPtr}]

allocMiddle(s) == internal_alloc(s)

freeMiddle(s, aLink) == internal_free(s, aLink)

(***************************************************************************)
(* NetBuffer: addressing                                                   *)
(***************************************************************************)
(* A variant that shifts by the bits of a chunk only. *)
root_offset_by_chunk(aPos) == BitAnd(Shr(aPos, Log(CHUNK_SIZE)), L0_SIZE - 1)

root_offset(aPos) ==
    LET sShift == Log(CHUNK_SIZE) + (HEIGHT - 2) * Log(MIDDLE_SIZE)
    IN BitAnd(Shr(aPos, sShift), L0_SIZE - 1)

(* A variant that shifts as root_offset does, whatever the level. *)
mid_offset_no_level(aPos, aLvl) ==
    LET sShift == Log(CHUNK_SIZE) + (HEIGHT - 2) * Log(MIDDLE_SIZE)
    IN BitAnd(Shr(aPos, sShift), MIDDLE_SIZE - 1)

mid_offset(aPos, aLvl) ==
    LET sShift == Log(CHUNK_SIZE) + (HEIGHT - 2 - aLvl) * Log(MIDDLE_SIZE)
    IN BitAnd(Shr(aPos, sShift), MIDDLE_SIZE - 1)

data_offset(aPos) == BitAnd(aPos, CHUNK_SIZE - 1)

(* A variant that reserves from the chunk, not the subtree, that holds m_Begin. *)
ReservedBegin_chunk(aBegin) == BitAnd(aBegin, BitNot(CHUNK_SIZE - 1))

(* m_Begin & ~(SUBTREE_CARDINALITY - 1) *)
ReservedBegin(aBegin) == BitAnd(aBegin, BitNot(SUBTREE_CARDINALITY - 1))

(* A variant that rounds m_End down to the chunk boundary. *)
AllocatedEnd_down(aEnd) == BitAnd(aEnd, BitNot(CHUNK_SIZE - 1))

(* (aEnd + CHUNK_SIZE - 1) & ~(CHUNK_SIZE - 1) *)
AllocatedEnd(aEnd) == BitAnd(Wrap(aEnd + CHUNK_SIZE - 1), BitNot(CHUNK_SIZE - 1))

(* A variant of the check that measures from m_Begin itself. *)
CapacityExceeded_from_begin(aBegin, aEnd, aSize) ==
    Wrap(aEnd + aSize - aBegin) > CARDINALITY

(* The capacity check of alloc: TRUE when it throws. *)
CapacityExceeded(aBegin, aEnd, aSize) ==
    Wrap(aEnd + aSize - ReservedBegin(aBegin)) > CARDINALITY

(* &m_Root[sAllocatedEnd / sSubtreeCardinality % T::L0_SIZE] *)
RootRef(aPos) == [blk |-> ROOT, idx |-> (aPos \div SUBTREE_CARDINALITY) % L0_SIZE]


(***************************************************************************)
(* NetBuffer::alloc, the walk that creates the nodes                       *)
(***************************************************************************)
(* sLink->child = allocMiddle(); sLink->size = aSize *)
alloc_link_set(a, sLink, aSize) ==
    IF Stopped(a.s) THEN a.s
    ELSE WrSize(WrChild(a.s, sLink, a.r), sLink, aSize)

alloc_link_new(s1, sLink, aSize) ==
    IF Stopped(s1) THEN s1
    ELSE alloc_link_set(allocMiddle(s1), sLink, aSize)

(* sLink->child = nullptr; sLink->child = allocMiddle(); sLink->size = aSize *)
alloc_link(s, sLink, aSize) == alloc_link_new(WrChild(s, sLink, NULL), sLink, aSize)

RECURSIVE alloc_levels(_, _, _, _, _)

(* sLink = &sLink->child[sNextOffsetVector / sSubtreeCardinality]; ... *)
alloc_levels_down(s1, sLink, sNextOffsetVector, sSubtreeCardinality, h) ==
    IF Stopped(s1) THEN [s |-> s1, sLink |-> sLink]
    ELSE IF ~RefOK(s1, sLink) THEN [s |-> Fault(s1), sLink |-> sLink]
    ELSE alloc_levels(s1,
                      [blk |-> RdChild(s1, sLink),
                       idx |-> sNextOffsetVector \div sSubtreeCardinality],
                      sNextOffsetVector % sSubtreeCardinality,
                      sSubtreeCardinality, h + 1)

(* for (size_t h = 0; h < T::HEIGHT - 2; h++) { ... } *)
alloc_levels(s, sLink, sNextOffsetVector, sSubtreeCardinality, h) ==
    IF h >= HEIGHT - 2 THEN [s |-> s, sLink |-> sLink]
    ELSE alloc_levels_down(IF sNextOffsetVector = 0
                           THEN alloc_link(s, sLink, MIDDLE_SIZE) ELSE s,
                           sLink, sNextOffsetVector,
                           sSubtreeCardinality \div MIDDLE_SIZE, h)

(* history: the chunk now stored for sAllocatedEnd *)
alloc_walk_made(s1, sLink, sAllocatedEnd) ==
    IF Stopped(s1) THEN s1
    ELSE [s1 EXCEPT !.made[sAllocatedEnd] = RdChild(s1, sLink)]

(* sLink->data = nullptr; sLink->data = m_Alloc.alloc(); sLink->size = CHUNK_SIZE *)
alloc_walk_leaf(w, sAllocatedEnd) ==
    IF Stopped(w.s) THEN w.s
    ELSE alloc_walk_made(alloc_link(w.s, w.sLink, CHUNK_SIZE), w.sLink, sAllocatedEnd)

(* while (sAllocatedEnd < sNewEnd) { ...; sAllocatedEnd += T::CHUNK_SIZE; } *)
RECURSIVE alloc_walk(_, _, _)
alloc_walk(s, sAllocatedEnd, sNewEnd) ==
    IF Stopped(s) \/ ~(sAllocatedEnd < sNewEnd) THEN s
    ELSE alloc_walk(alloc_walk_leaf(alloc_levels(s, RootRef(sAllocatedEnd),
                                                 sAllocatedEnd % SUBTREE_CARDINALITY,
                                                 SUBTREE_CARDINALITY, 0),
                                    sAllocatedEnd),
                    Wrap(sAllocatedEnd + CHUNK_SIZE), sNewEnd)

(***************************************************************************)
(* NetBuffer::alloc, the catch block                                       *)
(***************************************************************************)
(* if (nullptr == sLink->child) throw; freeMiddle(sLink->child) (or        *)
(* m_Alloc.free(sLink->data): child and data are one word)                 *)
rollback_link(s, sLink) ==
    IF ~RefOK(s, sLink) THEN Fault(s)
    ELSE IF RdChild(s, sLink) = NULL THEN Throw(s)
    ELSE freeMiddle(s, RdChild(s, sLink))

RECURSIVE rollback_levels(_, _, _, _, _)

rollback_levels_down(s1, sLink, sNextOffsetVector, sSubtreeCardinality, h) ==
    IF Stopped(s1) THEN [s |-> s1, sLink |-> sLink]
    ELSE IF ~RefOK(s1, sLink) THEN [s |-> Fault(s1), sLink |-> sLink]
    ELSE rollback_levels(s1,
                         [blk |-> RdChild(s1, sLink),
                          idx |-> sNextOffsetVector \div sSubtreeCardinality],
                         sNextOffsetVector % sSubtreeCardinality,
                         sSubtreeCardinality, h + 1)

rollback_levels(s, sLink, sNextOffsetVector, sSubtreeCardinality, h) ==
    IF h >= HEIGHT - 2 THEN [s |-> s, sLink |-> sLink]
    ELSE rollback_levels_down(IF sNextOffsetVector = 0
                              THEN rollback_link(s, sLink) ELSE s,
                              sLink, sNextOffsetVector,
                              sSubtreeCardinality \div MIDDLE_SIZE, h)

rollback_walk_leaf(w) ==
    IF Stopped(w.s) THEN w.s ELSE rollback_link(w.s, w.sLink)

(* while (sAllocatedEnd < sNewEnd) { ...; sAllocatedEnd -= T::CHUNK_SIZE; } *)
RECURSIVE rollback_walk(_, _, _)
rollback_walk(s, sAllocatedEnd, sNewEnd) ==
    IF Stopped(s) \/ ~(sAllocatedEnd < sNewEnd) THEN s
    ELSE rollback_walk(rollback_walk_leaf(
                           rollback_levels(s, RootRef(sAllocatedEnd),
                                           sAllocatedEnd % SUBTREE_CARDINALITY,
                                           SUBTREE_CARDINALITY, 0)),
                       Wrap(sAllocatedEnd - CHUNK_SIZE), sNewEnd)

(* Leaving the loop: assert(false), which aborts unless the build compiles  *)
(* it out, and then throw.                                                  *)
rollback_end(r) ==
    IF Stopped(r) THEN r ELSE Throw([r EXCEPT !.asserted = TRUE])

(* catch (...) { ... } *)
rollback(s, aEnd, sNewEnd) ==
    rollback_end(rollback_walk([s EXCEPT !.exc = "none"], AllocatedEnd(aEnd), sNewEnd))

(***************************************************************************)
(* NetBuffer::alloc                                                        *)
(***************************************************************************)
Outcome(s) ==
    IF s.fault THEN "crashed"
    ELSE IF s.asserted THEN "assert"
    ELSE IF s.exc # "none" THEN "pool"
    ELSE "ok"

(* A variant that returns the new end. *)
alloc_done_new_end(f, aEnd, sNewEnd) ==
    [s |-> [f EXCEPT !.end = sNewEnd], out |-> "ok", ret |-> sNewEnd]

(* size_t sOldEnd = m_End; m_End = sNewEnd; return sOldEnd; *)
alloc_done(f, aEnd, sNewEnd) ==
    [s |-> [f EXCEPT !.end = sNewEnd], out |-> "ok", ret |-> aEnd]

(* The exception leaves alloc; the history of the chunks is as before. *)
alloc_failed(r, aMade) ==
    [s |-> [r EXCEPT !.made = aMade], out |-> Outcome(r), ret |-> NULL]

(* The end of the try block: into the catch block, or past it. *)
alloc_tried(f, aEnd, aMade, sNewEnd) ==
    IF f.fault THEN [s |-> f, out |-> "crashed", ret |-> NULL]
    ELSE IF f.exc # "none" THEN alloc_failed(rollback(f, aEnd, sNewEnd), aMade)
    ELSE alloc_done(f, aEnd, sNewEnd)

alloc(s, aSize) ==
    IF CapacityExceeded(s.begin, s.end, aSize)
    THEN [s |-> s, out |-> "capacity", ret |-> NULL]
    ELSE alloc_tried(alloc_walk(s, AllocatedEnd(s.end), Wrap(s.end + aSize)),
                     s.end, s.made, Wrap(s.end + aSize))

(***************************************************************************)
(* NetBuffer::unalloc                                                      *)
(***************************************************************************)
RECURSIVE unalloc_levels(_, _, _, _, _)

(* if (0 == sNextOffsetVector) freeMiddle(sSave); ... *)
unalloc_levels_down(s1, sNext, sNextOffsetVector, sSubtreeCardinality, h) ==
    IF Stopped(s1) THEN [s |-> s1, sLink |-> sNext]
    ELSE unalloc_levels(s1, sNext, sNextOffsetVector % sSubtreeCardinality,
                        sSubtreeCardinality, h + 1)

(* Link* sSave = sLink; sSubtreeCardinality /= MIDDLE_SIZE;                *)
(* sLink = sLink[sNextOffsetVector / sSubtreeCardinality].child;           *)
unalloc_levels_read(s, sSave, sRef, sNextOffsetVector, sSubtreeCardinality, h) ==
    IF ~RefOK(s, sRef) THEN [s |-> Fault(s), sLink |-> sSave]
    ELSE unalloc_levels_down(IF sNextOffsetVector = 0 THEN freeMiddle(s, sSave) ELSE s,
                             RdChild(s, sRef), sNextOffsetVector,
                             sSubtreeCardinality, h)

(* for (size_t h = 0; h < T::HEIGHT - 2; h++) { ... } *)
unalloc_levels(s, sLink, sNextOffsetVector, sSubtreeCardinality, h) ==
    IF h >= HEIGHT - 2 THEN [s |-> s, sLink |-> sLink]
    ELSE unalloc_levels_read(
             s, sLink,
             [blk |-> sLink,
              idx |-> sNextOffsetVector \div (sSubtreeCardinality \div MIDDLE_SIZE)],
             sNextOffsetVector, sSubtreeCardinality \div MIDDLE_SIZE, h)

(* history: no chunk is stored for sAllocatedEnd any more *)
unalloc_walk_made(s1, sAllocatedEnd) ==
    IF Stopped(s1) THEN s1
    ELSE [s1 EXCEPT !.made = [o \in DOMAIN @ |->
                                IF o = sAllocatedEnd THEN NULL ELSE @[o]]]

(* freeMiddle(sLink) *)
unalloc_walk_leaf(w, sAllocatedEnd) ==
    IF Stopped(w.s) THEN w.s
    ELSE unalloc_walk_made(freeMiddle(w.s, w.sLink), sAllocatedEnd)

(* the body of the loop, sAllocatedEnd already moved down by CHUNK_SIZE *)
unalloc_walk_chunk(s, sAllocatedEnd) ==
    unalloc_walk_leaf(unalloc_levels(s, RdChild(s, RootRef(sAllocatedEnd)),
                                     sAllocatedEnd % SUBTREE_CARDINALITY,
                                     SUBTREE_CARDINALITY, 0),
                      sAllocatedEnd)

(* while (sNewAllocatedEnd != sAllocatedEnd) { sAllocatedEnd -= CHUNK_SIZE; ... } *)
RECURSIVE unalloc_walk(_, _, _)
unalloc_walk(s, sAllocatedEnd, sNewAllocatedEnd) ==
    IF Stopped(s) \/ sNewAllocatedEnd = sAllocatedEnd THEN s
    ELSE unalloc_walk(unalloc_walk_chunk(s, Wrap(sAllocatedEnd - CHUNK_SIZE)),
                      Wrap(sAllocatedEnd - CHUNK_SIZE), sNewAllocatedEnd)

(* m_End = sNewEnd *)
unalloc_done(r, sNewEnd) ==
    IF Stopped(r) THEN [s |-> r, out |-> Outcome(r), ret |-> NULL]
    ELSE [s |-> [r EXCEPT !.end = sNewEnd], out |-> "ok", ret |-> NULL]

unalloc(s, aSize) ==
    unalloc_done(unalloc_walk(s, AllocatedEnd(s.end),
                              AllocatedEnd(Wrap(s.end - aSize))),
                 Wrap(s.end - aSize))

(***************************************************************************)
(* NetBuffer::free.  sPath has HEIGHT - 1 elements, sPath[0..HEIGHT-2]; the *)
(* code uses sPath[HEIGHT - 1], the word behind the array, which the        *)
(* function never writes.  aSlot says what that word holds: an address      *)
(* that is no Link (WILD), or the same address as sPath[aSlot].             *)
(***************************************************************************)
(* sPath[h] = &sPath[h - 1]->child[mid_offset(aPos, h)] *)
RECURSIVE free_path(_, _, _, _)
free_path(s, sPath, aPos, h) ==
    IF h >= HEIGHT - 1 THEN [s |-> s, sPath |-> sPath]
    ELSE IF ~RefOK(s, sPath[h - 1]) THEN [s |-> Fault(s), sPath |-> sPath]
    ELSE free_path(s,
                   [k \in 0..h |->
                      IF k < h THEN sPath[k]
                      ELSE [blk |-> RdChild(s, sPath[h - 1]),
                            idx |-> mid_offset(aPos, h)]],
                   aPos, h + 1)

(* size -= n on a word: a word that is no number stays none *)
SubSize(v, n) == IF v = WILD THEN WILD ELSE Wrap(v - n)

(* std::min(aSize, T::CHUNK_SIZE - (aPos & (T::CHUNK_SIZE - 1))) *)
SizeInBlock(aPos, aSize) == Min(aSize, CHUNK_SIZE - BitAnd(aPos, CHUNK_SIZE - 1))

(* sPath[T::HEIGHT - 1] *)
free_last(p, aSlot) ==
    IF aSlot = WILD \/ Stopped(p.s) THEN [blk |-> WILD, idx |-> 0] ELSE p.sPath[aSlot]

(* if (0 == sLeft) m_Alloc.free(sPath[T::HEIGHT - 1]->data) *)
free_release(s1, sLast) ==
    IF Stopped(s1) THEN s1
    ELSE IF RdSize(s1, sLast) = 0 THEN internal_free(s1, RdChild(s1, sLast))
    ELSE s1

(* sPath[T::HEIGHT - 1]->size -= sSizeInBlock *)
free_decrement(s, sLast, sSizeInBlock) ==
    IF Stopped(s) THEN s
    ELSE IF ~RefOK(s, sLast) THEN Fault(s)
    ELSE free_release(WrSize(s, sLast, SubSize(RdSize(s, sLast), sSizeInBlock)), sLast)

(* the body of the loop *)
free_chunk(p, aPos, aSize, aSlot) ==
    free_decrement(p.s, free_last(p, aSlot), SizeInBlock(aPos, aSize))

RECURSIVE free_walk(_, _, _, _)

(* aPos += sSizeInBlock; aSize -= sSizeInBlock; } while (0 != aSize) *)
free_again(s2, aPos, aSize, aSlot) ==
    IF Stopped(s2) \/ aSize - SizeInBlock(aPos, aSize) = 0 THEN s2
    ELSE free_walk(s2, Wrap(aPos + SizeInBlock(aPos, aSize)),
                   aSize - SizeInBlock(aPos, aSize), aSlot)

(* do { ... } *)
free_walk(s, aPos, aSize, aSlot) ==
    free_again(free_chunk(free_path(s, [k \in {0} |->
                                          [blk |-> ROOT, idx |-> root_offset(aPos)]],
                                    aPos, 1),
                          aPos, aSize, aSlot),
               aPos, aSize, aSlot)

free_done(r) == [s |-> r, out |-> Outcome(r), ret |-> NULL]

free(s, aPos, aSize, aSlot) == free_done(free_walk(s, aPos, aSize, aSlot))

(***************************************************************************)
(* NetBuffer::begin(size_t) and the addressing path                        *)
(***************************************************************************)
(* inline void begin(size_t aPos) { m_Begin = aPos; } *)
begin(s, aPos) == [s |-> [s EXCEPT !.begin = aPos], out |-> "ok", ret |-> NULL]

(* ~NetBuffer() { if (m_Begin == m_End) return; } *)
destructor(s) ==
    IF s.begin = s.end THEN [s |-> s, out |-> "destroyed", ret |-> NULL]
    ELSE [s |-> s, out |-> "destroyed", ret |-> NULL]

(* The entry that root_offset and mid_offset select for aPos: the last     *)
(* element, sPath[HEIGHT - 2], of the path free builds.                    *)
LeafEntry(s, aPos) ==
    free_path(s, [k \in {0} |-> [blk |-> ROOT, idx |-> root_offset(aPos)]],
              aPos, 1).sPath[HEIGHT - 2]

(***************************************************************************)
(* What a state holds                                                      *)
(***************************************************************************)
RECURSIVE FreeWalk(_, _, _, _)
FreeWalk(m, p, seen, n) ==
    IF n = 0 \/ p \notin 1..MaxBlocks \/ p \in seen THEN seen
    ELSE FreeWalk(m, m[p][0].child, seen \cup {p}, n - 1)

(* The blocks on the pool's free list. *)
FreeSet(aMem, aNext) == FreeWalk(aMem, aNext, {}, MaxBlocks)

(* The blocks allocated from the pool and not released. *)
Resident(aMem, aNext, aArenas) == (1..(COUNT * aArenas)) \ FreeSet(aMem, aNext)

ResidentIn(s) == Resident(s.mem, s.next, s.arenas)

Step == CHUNK_SIZE \div 2
MaxEnd == MaxEndSteps * Step
Positions == {k * Step : k \in 0..MaxEndSteps}
Sizes == {Step, CHUNK_SIZE, CHUNK_SIZE + Step, SUBTREE_CARDINALITY,
          CARDINALITY, CARDINALITY + Step}
FreeSizes == {Step, CHUNK_SIZE, CHUNK_SIZE + Step}
Grants == {0, MaxArenas}
Inds == {NULL, WILD}
ChunkOffsets == {k * CHUNK_SIZE : k \in 0..((WORD \div CHUNK_SIZE) - 1)}
StackWords == (0..(HEIGHT - 2)) \cup {WILD}

Virgin == [child |-> INDET, size |-> INDET]

FreshPool ==
    /\ arenas = 0
    /\ m_Next = NULL
    /\ m_Count = 0
    /\ mem = [b \in 1..MaxBlocks |-> [i \in 0..(MIDDLE_SIZE - 1) |-> Virgin]]

(* The pool as one fill() and COUNT - aFree calls of internal_alloc() by    *)
(* earlier owners of the same instance() have left it.                     *)
UsedPool(aFree) ==
    /\ arenas = 1
    /\ m_Next = aFree
    /\ m_Count = COUNT - aFree
    /\ mem = [b \in 1..MaxBlocks |->
                [i \in 0..(MIDDLE_SIZE - 1) |->
                   IF b <= COUNT /\ i = 0
                   THEN [child |-> b - 1, size |-> INDET] ELSE Virgin]]

Init ==
    /\ m_Begin = 0
    /\ m_End = 0
    /\ m_Root = [i \in 0..(L0_SIZE - 1) |-> Virgin]
    /\ FreshPool \/ UsedPool(InitFree)
    /\ status = "run"
    /\ call = [op |-> "init", out |-> "ok"]
    /\ made = [o \in ChunkOffsets |-> NULL]
    /\ held = Resident(mem, m_Next, arenas)
    /\ calls = 0

(* The program's state as a call finds it. *)
State(aGrant, aInd) ==
    [begin |-> m_Begin, end |-> m_End, root |-> m_Root, mem |-> mem,
     next |-> m_Next, count |-> m_Count, arenas |-> arenas,
     made |-> made, held |-> held, grant |-> aGrant, ind |-> aInd,
     exc |-> "none", fault |-> FALSE, asserted |-> FALSE]

(* The state a call leaves, as the next call finds it. *)
After(r, aGrant, aInd) ==
    [r.s EXCEPT !.grant = aGrant, !.ind = aInd,
                !.exc = "none", !.fault = FALSE, !.asserted = FALSE]

Commit(r, aOp, aOut) ==
    /\ m_Begin' = r.s.begin
    /\ m_End' = r.s.end
    /\ m_Root' = r.s.root
    /\ mem' = r.s.mem
    /\ m_Next' = r.s.next
    /\ m_Count' = r.s.count
    /\ arenas' = r.s.arenas
    /\ made' = r.s.made
    /\ held' = r.s.held
    /\ status' = IF aOut \in {"crashed", "aborted", "destroyed"} THEN aOut ELSE "run"
    /\ call' = [op |-> aOp, out |-> aOut]

(***************************************************************************)
(* The calls.  Only calls that keep the preconditions are made:            *)
(* begin(pos) with m_Begin <= pos <= m_End, unalloc(size) with             *)
(* size <= m_End - m_Begin, free of a range inside [m_Begin, m_End).       *)
(* When alloc's catch block leaves its loop, assert(false) aborts or, in   *)
(* a build without assertions, the exception is rethrown.                   *)
(***************************************************************************)
Ends(r, aOp) == Commit(r, aOp, r.out)

AllocEnds(r) ==
    \E o \in IF r.out = "assert" THEN {"aborted", "pool"} ELSE {r.out} :
       Commit(r, "alloc", o)

Alloc(aSize, aGrant, aInd) ==
    /\ status = "run"
    /\ m_End + aSize <= MaxEnd
    /\ AllocEnds(alloc(State(aGrant, aInd), aSize))

Unalloc(aSize, aInd) ==
    /\ status = "run"
    /\ aSize <= m_End - m_Begin
    /\ Ends(unalloc(State(0, aInd), aSize), "unalloc")

SetBegin(aPos) ==
    /\ status = "run"
    /\ m_Begin <= aPos /\ aPos <= m_End
    /\ Ends(begin(State(0, WILD), aPos), "begin")

Free(aPos, aSize, aSlot, aInd) ==
    /\ status = "run"
    /\ m_Begin <= aPos /\ aPos + aSize <= m_End
    /\ Ends(free(State(0, aInd), aPos, aSize, aSlot), "free")

(* The buffer goes out of scope. *)
Destroy ==
    /\ status = "run"
    /\ Ends(destructor(State(0, WILD)), "destroy")

(* One more call of a behaviour that counts its calls. *)
Counted ==
    /\ calls < MaxCalls
    /\ calls' = calls + 1

(* Every call of the interface, the pool failing or not, in behaviours of  *)
(* at most MaxCalls calls.                                                 *)
Next ==
    \/ \E n \in Sizes, g \in Grants, i \in Inds : Counted /\ Alloc(n, g, i)
    \/ \E n \in Sizes, i \in Inds : Counted /\ Unalloc(n, i)
    \/ \E p \in Positions : Counted /\ SetBegin(p)
    \/ \E p \in Positions, n \in FreeSizes, w \in StackWords, i \in Inds :
          Counted /\ Free(p, n, w, i)
    \/ Counted /\ Destroy

Spec == Init /\ [][Next]_vars

(* Behaviours of any length of alloc, unalloc and begin on a fresh pool    *)
(* that never fails.                                                       *)
AllocOK(aSize) ==
    /\ Alloc(aSize, MaxArenas, WILD)
    /\ call'.out \in {"ok", "capacity"}

InitOK ==
    /\ Init
    /\ arenas = 0

NextOK ==
    \/ \E n \in Sizes : AllocOK(n) /\ UNCHANGED calls
    \/ \E n \in Sizes : Unalloc(n, WILD) /\ UNCHANGED calls
    \/ \E p \in Positions : SetBegin(p) /\ UNCHANGED calls

SpecOK == InitOK /\ [][NextOK]_vars

(***************************************************************************)
(* The pool by itself: StupidAllocator::alloc() and free(aPtr) called by   *)
(* any holders, free(aPtr) only with a block that is held.  A holder may   *)
(* write into a block it holds; Block::data and Block::next share the      *)
(* first word.                                                             *)
(***************************************************************************)
PoolOutcome(s) ==
    IF s.fault THEN "crashed" ELSE IF s.exc # "none" THEN "pool" ELSE "ok"

PoolEnds(s, aOp) == Commit([s |-> s], aOp, PoolOutcome(s))

(* static char* alloc() { return instance().internal_alloc(); } *)
PoolAlloc(aGrant) ==
    /\ status = "run"
    /\ PoolEnds(internal_alloc(State(aGrant, WILD)).s, "alloc")

(* static void free(char* aPtr) { instance().internal_free(aPtr); } *)
PoolFree(aPtr) ==
    /\ status = "run"
    /\ aPtr \in held
    /\ PoolEnds(internal_free(State(0, WILD), aPtr), "free")

(* a holder stores aWord at the start of the data of a block it holds *)
PoolWrite(aPtr, aWord) ==
    /\ status = "run"
    /\ aPtr \in held
    /\ PoolEnds(WrChild(State(0, WILD), [blk |-> aPtr, idx |-> 0], aWord), "write")

CountedPool ==
    /\ calls < MaxPoolCalls
    /\ calls' = calls + 1

(* The blocks whose holders release them or write into them. *)
ActiveBlocks == {b \in 1..MaxBlocks : b % COUNT <= PoolActive}

NextPool ==
    \/ \E g \in Grants : CountedPool /\ PoolAlloc(g)
    \/ \E b \in ActiveBlocks : CountedPool /\ PoolFree(b)
    \/ \E b \in ActiveBlocks, v \in {NULL, WILD} : CountedPool /\ PoolWrite(b, v)

SpecPool == Init /\ [][NextPool]_vars

(***************************************************************************)
(* Properties.  A property of a call is stated over the call's result in   *)
(* every reachable state and for every input; the state a call finds is    *)
(* State(g, i), the state it leaves is the s field of its result.          *)
(***************************************************************************)
AlignDown(x, a) == x - (x % a)

Max(a, b) == IF a > b THEN a ELSE b

(* end - align_down(begin, SUBTREE_CARDINALITY) <= CARDINALITY, in integers *)
WindowOK(aBegin, aEnd) ==
    aEnd - AlignDown(aBegin, SUBTREE_CARDINALITY) <= CARDINALITY

(* The CHUNK_SIZE-aligned offsets in [aFrom, aTo). *)
ChunksIn(aFrom, aTo) == {b \in ChunkOffsets : aFrom <= b /\ b < aTo}

(* The bytes of the chunk at offset b that lie in [aPos, aPos + aSize). *)
Overlap(b, aPos, aSize) ==
    Max(0, Min(b + CHUNK_SIZE, aPos + aSize) - Max(b, aPos))

(* Every entry of the tree: the root's and those of every block. *)
Entries ==
    {[blk |-> ROOT, idx |-> k] : k \in 0..(L0_SIZE - 1)}
    \cup {[blk |-> b, idx |-> k] : b \in 1..MaxBlocks, k \in 0..(MIDDLE_SIZE - 1)}

(* The path of entries to the chunk at aPos: sPath[0..HEIGHT-2]. *)
PathOf(s, aPos) ==
    free_path(s, [k \in {0} |-> [blk |-> ROOT, idx |-> root_offset(aPos)]],
              aPos, 1).sPath

(* C1: if a pool allocation fails during alloc(size), then when the failure *)
(* reaches the caller the set of resident blocks is exactly the set that    *)
(* was resident before the call.                                            *)
C1_PoolFailureRestoresResidentBlocks ==
    status = "run" =>
      \A n \in Sizes, g \in Grants, i \in Inds :
         LET r == alloc(State(g, i), n)
         IN r.out = "pool" => ResidentIn(r.s) = Resident(mem, m_Next, arenas)

(* C2: alloc(size) in a state where end + size - align_down(begin,          *)
(* SUBTREE_CARDINALITY) > CARDINALITY fails with the capacity error and     *)
(* leaves begin, end, the root, every block's contents and the pool as      *)
(* they were.                                                               *)
C2_CapacityFailureChangesNothing ==
    status = "run" =>
      \A n \in Sizes, g \in Grants, i \in Inds :
         m_End + n - AlignDown(m_Begin, SUBTREE_CARDINALITY) > CARDINALITY =>
            LET r == alloc(State(g, i), n)
            IN /\ r.out = "capacity"
               /\ r.s = State(g, i)

(* A capacity failure has been reported with m_Begin off a subtree boundary. *)
C2_CapacityFailureSeen ==
    /\ call = [op |-> "alloc", out |-> "capacity"]
    /\ m_Begin % SUBTREE_CARDINALITY # 0

(* C3: in every state reached by alloc, unalloc, free and begin(pos), where *)
(* begin(pos) is called with m_Begin <= pos <= m_End only and unalloc(size) *)
(* with size <= m_End - m_Begin only,                                       *)
(* end - align_down(begin, SUBTREE_CARDINALITY) <= CARDINALITY.             *)
C3_WindowWithinCapacity == WindowOK(m_Begin, m_End)

(* The window has moved past the first CARDINALITY bytes. *)
C3_WindowMoved ==
    /\ m_End > CARDINALITY
    /\ m_Begin >= SUBTREE_CARDINALITY
    /\ call.op = "alloc"

(* C3 as stated, for any begin(pos): whatever pos the next begin(pos) is   *)
(* called with, end - align_down(begin, SUBTREE_CARDINALITY) <= CARDINALITY *)
(* after it.                                                                *)
C3_WindowWithinCapacityAfterAnyBegin ==
    status = "run" =>
      \A p \in Positions :
         LET r == begin(State(0, WILD), p)
         IN WindowOK(r.s.begin, r.s.end)

(* C4: in every reachable state, for every n for which alloc(n) succeeds,  *)
(* alloc(n) followed at once by unalloc(n) restores end, the set of         *)
(* resident blocks and the pool's live-block count.                         *)
C4_AllocUnallocRoundTrip ==
    status = "run" =>
      \A n \in Sizes, g \in Grants, i \in Inds :
         LET a == alloc(State(g, i), n)
         IN a.out = "ok" =>
              LET u == unalloc(After(a, 0, i), n)
              IN /\ u.out = "ok"
                 /\ u.s.end = m_End
                 /\ ResidentIn(u.s) = Resident(mem, m_Next, arenas)
                 /\ u.s.count = m_Count

(* C5: on every exit path of alloc(size), end differs from its pre-call    *)
(* value only when every pool allocation succeeded, and then                *)
(* end = old end + size and the offset returned is the old end; on a        *)
(* capacity failure or a pool failure end and begin are as before.          *)
C5_EndMovesOnlyOnSuccess ==
    status = "run" =>
      \A n \in Sizes, g \in Grants, i \in Inds :
         LET r == alloc(State(g, i), n)
         IN /\ r.s.end # m_End => r.out = "ok"
            /\ r.out = "ok" => /\ r.s.end = m_End + n
                               /\ r.ret = m_End
                               /\ r.s.exc = "none"
            /\ r.out \in {"capacity", "pool", "assert"} =>
                  /\ r.s.end = m_End
                  /\ r.s.begin = m_Begin

(* A pool failure has reached the caller of an alloc on a buffer that is   *)
(* not empty.                                                               *)
C5_PoolFailureSeen ==
    /\ call = [op |-> "alloc", out |-> "pool"]
    /\ m_End > 0

(* The interior nodes on the paths to the chunks below aEnd, and the       *)
(* ranges they cover: <<level, start of the range>>.                        *)
NodeRange(k) == CHUNK_SIZE * Pow(MIDDLE_SIZE, HEIGHT - 1 - k)

NodeStarts(aEnd) ==
    {<<k, AlignDown(b, NodeRange(k))>> : b \in ChunksIn(0, aEnd), k \in 1..(HEIGHT - 2)}

NodesBelow(s, aEnd) ==
    {PathOf(s, b)[k].blk : b \in ChunksIn(0, aEnd), k \in 1..(HEIGHT - 2)}

LeavesBelow(s, aEnd) ==
    {RdChild(s, LeafEntry(s, b)) : b \in ChunksIn(0, aEnd)}

(* C6: while begin stays 0, after successful alloc and unalloc calls a     *)
(* leaf chunk is resident for an aligned offset b iff b < end and an        *)
(* interior node is resident for a range starting at s iff s < end: the     *)
(* resident blocks are exactly one leaf chunk per aligned offset below end  *)
(* and one interior node per covered range that starts below end.           *)
C6_LazyMaterialization ==
    m_Begin = 0 =>
       /\ Resident(mem, m_Next, arenas) =
             LeavesBelow(State(0, WILD), m_End) \cup NodesBelow(State(0, WILD), m_End)
       /\ Cardinality(LeavesBelow(State(0, WILD), m_End)) =
             Cardinality(ChunksIn(0, m_End))
       /\ Cardinality(NodesBelow(State(0, WILD), m_End)) =
             Cardinality(NodeStarts(m_End))
       /\ LeavesBelow(State(0, WILD), m_End) \cap NodesBelow(State(0, WILD), m_End) = {}
       /\ m_Count = Cardinality(Resident(mem, m_Next, arenas))

(* An unalloc has left chunks of both subtrees resident, begin still 0. *)
C6_TwoSubtreesSeen ==
    /\ m_Begin = 0
    /\ m_End > SUBTREE_CARDINALITY
    /\ call = [op |-> "unalloc", out |-> "ok"]

(* The chunks of the range that the leaf entry e belongs to. *)
ChunksAt(s, e, aPos, aSize) ==
    {b \in ChunkOffsets : Overlap(b, aPos, aSize) > 0 /\ LeafEntry(s, b) = e}

(* C7: free(pos, size) with [pos, pos + size) inside [begin, end)          *)
(* decrements, for each leaf chunk the range overlaps, the counter in that  *)
(* chunk's own leaf entry by the number of overlapping bytes, and changes   *)
(* the counter of no other entry.                                           *)
C7_FreeDecrementsLeafCounters ==
    status = "run" =>
      \A p \in Positions, n \in FreeSizes, w \in StackWords, i \in Inds :
         (m_Begin <= p /\ p + n <= m_End) =>
            LET r == free(State(0, i), p, n, w)
            IN /\ r.out = "ok"
               /\ \A e \in Entries :
                     IF ChunksAt(State(0, i), e, p, n) = {}
                     THEN RdLink(r.s, e).size = RdLink(State(0, i), e).size
                     ELSE \A b \in ChunksAt(State(0, i), e, p, n) :
                             RdLink(r.s, e).size =
                                RdLink(State(0, i), e).size - Overlap(b, p, n)

(* C8: frees over disjoint sub-ranges of one leaf chunk's aligned range    *)
(* release the chunk exactly once, by the call that brings the total to     *)
(* CHUNK_SIZE and by no earlier call; one free of the whole aligned range   *)
(* releases it exactly once.                                                *)
C8_ChunkReleasedExactlyOnce ==
    status = "run" =>
      \A b \in ChunksIn(m_Begin, m_End), w \in StackWords, i \in Inds :
         (/\ b + CHUNK_SIZE <= m_End
          /\ RefOK(State(0, i), LeafEntry(State(0, i), b))
          /\ RdLink(State(0, i), LeafEntry(State(0, i), b)).size = CHUNK_SIZE
          /\ RdChild(State(0, i), LeafEntry(State(0, i), b))
                \in Resident(mem, m_Next, arenas)) =>
            LET c == RdChild(State(0, i), LeafEntry(State(0, i), b))
                whole == free(State(0, i), b, CHUNK_SIZE, w)
                first == free(State(0, i), b, Step, w)
                second == free(After(first, 0, i), b + Step, CHUNK_SIZE - Step, w)
            IN /\ whole.out = "ok"
               /\ FreeSet(whole.s.mem, whole.s.next) = FreeSet(mem, m_Next) \cup {c}
               /\ whole.s.count = m_Count - 1
               /\ first.out = "ok"
               /\ FreeSet(first.s.mem, first.s.next) = FreeSet(mem, m_Next)
               /\ second.out = "ok"
               /\ FreeSet(second.s.mem, second.s.next) = FreeSet(mem, m_Next) \cup {c}
               /\ second.s.count = m_Count - 1

(* C9: free called again over a range already freed is caught by a fatal   *)
(* check and changes no counter and releases no block.                      *)
C9_RepeatedFreeIsCaught ==
    status = "run" =>
      \A p \in Positions, n \in FreeSizes, w \in StackWords, i \in Inds :
         (m_Begin <= p /\ p + n <= m_End) =>
            LET first == free(State(0, i), p, n, w)
            IN first.out = "ok" =>
                  LET again == free(After(first, 0, i), p, n, w)
                  IN /\ again.out = "assert"
                     /\ again.s.root = first.s.root
                     /\ again.s.mem = first.s.mem
                     /\ again.s.next = first.s.next
                     /\ again.s.count = first.s.count

(* The aligned offsets of [align_down(begin, SUBTREE_CARDINALITY), end)    *)
(* resolve to distinct leaf entries, each holding the resident chunk that   *)
(* alloc created for its offset.                                            *)
NoAliasing(s) ==
    \A a \in ChunksIn(AlignDown(s.begin, SUBTREE_CARDINALITY), s.end) :
       /\ RefOK(s, LeafEntry(s, a))
       /\ s.made[a] # NULL
       /\ RdChild(s, LeafEntry(s, a)) = s.made[a]
       /\ s.made[a] \in ResidentIn(s)
       /\ \A b \in ChunksIn(AlignDown(s.begin, SUBTREE_CARDINALITY), s.end) :
             a # b => /\ LeafEntry(s, a) # LeafEntry(s, b)
                      /\ s.made[a] # s.made[b]

RECURSIVE FreeChunks(_, _, _, _, _)
FreeChunks(r, aFrom, aTo, aSlot, aInd) ==
    IF aFrom >= aTo \/ r.out # "ok" THEN r
    ELSE FreeChunks(free(After(r, 0, aInd), aFrom, CHUNK_SIZE, aSlot),
                    aFrom + CHUNK_SIZE, aTo, aSlot, aInd)

(* The leaf chunks and interior nodes that address CARDINALITY bytes. *)
RECURSIVE NodesFrom(_)
NodesFrom(k) ==
    IF k > HEIGHT - 2 THEN 0 ELSE CARDINALITY \div NodeRange(k) + NodesFrom(k + 1)

WindowBlocks == CARDINALITY \div CHUNK_SIZE + NodesFrom(1)

(* The entries of the root and of the blocks resident in s. *)
LiveEntries(s) == {e \in Entries : e.blk = ROOT \/ e.blk \in ResidentIn(s)}

(* C11: starting from an empty buffer, after alloc(CARDINALITY), free of    *)
(* every byte of the first subtree, begin(SUBTREE_CARDINALITY) and an       *)
(* alloc(SUBTREE_CARDINALITY) that reuses root slot 0, the buffer holds at  *)
(* most the leaf chunks and interior nodes of one CARDINALITY window, and   *)
(* that alloc overwrote no entry that referred to a block resident then     *)
(* and resident still.                                                      *)
C11_ResidencyBoundedAcrossWrap ==
    (status = "run" /\ m_Begin = 0 /\ m_End = 0) =>
      \A w \in StackWords, i \in Inds :
         LET a1 == alloc(State(MaxArenas, i), CARDINALITY)
             f == FreeChunks(a1, 0, SUBTREE_CARDINALITY, w, i)
             b == begin(After(f, 0, i), SUBTREE_CARDINALITY)
             a2 == alloc(After(b, MaxArenas, i), SUBTREE_CARDINALITY)
         IN (a1.out = "ok" /\ f.out = "ok" /\ a2.out = "ok") =>
               /\ Cardinality(ResidentIn(a2.s) \ Resident(mem, m_Next, arenas))
                     <= WindowBlocks
               /\ \A e \in LiveEntries(b.s) :
                     (/\ RdLink(b.s, e).child \in ResidentIn(b.s)
                      /\ RdLink(a2.s, e).child # RdLink(b.s, e).child) =>
                        RdLink(b.s, e).child \notin ResidentIn(a2.s)

(* C12: over alloc() and free(aPtr) calls of the pool in which every free   *)
(* passes a held block, alloc() returns a block of an arena that no holder  *)
(* holds, and no held block is on the free list.                            *)
C12_AllocReturnsUnheldBlock ==
    /\ held \cap FreeSet(mem, m_Next) = {}
    /\ \A g \in Grants :
          LET r == internal_alloc(State(g, WILD))
          IN \/ r.s.exc # "none" /\ r.r = NULL
             \/ /\ PoolOutcome(r.s) = "ok"
                /\ ValidBlk(r.s, r.r)
                /\ r.r \notin held
                /\ r.s.held = held \cup {r.r}

(* A block that was released has been handed out again: its first word is *)
(* a link that internal_free, not fill, stored.                            *)
C12_ReleasedBlockReused ==
    /\ call = [op |-> "alloc", out |-> "ok"]
    /\ \E b \in held : /\ mem[b][0].child \in 1..MaxBlocks
                       /\ mem[b][0].child # b - 1

(* C13: a buffer destroyed after its first alloc has released every block   *)
(* it holds: the pool's live-block count and its resident blocks are those  *)
(* of before the first alloc, whether begin = end or not.                   *)
C13_DestructorReleasesEverything ==
    call.op = "init" =>
      \A n \in Sizes, toEnd \in BOOLEAN, i \in Inds :
         LET a == alloc(State(MaxArenas, i), n)
             b == begin(After(a, 0, i), IF toEnd THEN n ELSE 0)
             d == destructor(After(b, 0, i))
         IN a.out = "ok" =>
              /\ d.s.count = m_Count
              /\ ResidentIn(d.s) = Resident(mem, m_Next, arenas)
              /\ d.s.held = held

(* The releases the pool counted beyond the held blocks it got back. *)
ReleasedUnheld(s) == Wrap(Cardinality(s.held) - s.count)

(* C14: when end is chunk-aligned, alloc(CHUNK_SIZE), free of the new       *)
(* chunk's range and unalloc(CHUNK_SIZE) release no block that is not held: *)
(* the pool's live count falls only by the held blocks given back, and the  *)
(* chunk free released is not on the free list twice.                       *)
C14_NoDoubleRelease ==
    (status = "run" /\ m_End % CHUNK_SIZE = 0) =>
      \A w \in StackWords, i \in Inds :
         LET a == alloc(State(MaxArenas, i), CHUNK_SIZE)
             f == free(After(a, 0, i), m_End, CHUNK_SIZE, w)
             u == unalloc(After(f, 0, i), CHUNK_SIZE)
         IN (a.out = "ok" /\ f.out = "ok") =>
               /\ u.out = "ok"
               /\ ReleasedUnheld(u.s) = ReleasedUnheld(State(0, i))

(* unalloc's first pass of the loop, up to line 205: the state after the   *)
(* for loop over the levels, before freeMiddle(sLink) releases the leaf.   *)
UnallocBeforeLeaf(s) ==
    unalloc_levels(s, RdChild(s, RootRef(Wrap(AllocatedEnd(s.end) - CHUNK_SIZE))),
                   Wrap(AllocatedEnd(s.end) - CHUNK_SIZE) % SUBTREE_CARDINALITY,
                   SUBTREE_CARDINALITY, 0).s

(* C15: in unalloc, when the walk has released an interior node and has    *)
(* not yet released the leaf chunk of this pass, no block that an entry of  *)
(* the released node refers to is still resident.                           *)
C15_UnallocReleasesBottomUp ==
    status = "run" =>
      \A n \in Sizes, i \in Inds :
         (/\ n <= m_End - m_Begin
          /\ AllocatedEnd(m_End - n) # AllocatedEnd(m_End)
          /\ ~Stopped(UnallocBeforeLeaf(State(0, i)))) =>
            \A nd \in ResidentIn(State(0, i)) \ ResidentIn(UnallocBeforeLeaf(State(0, i))) :
               \A k \in 0..(MIDDLE_SIZE - 1) :
                  mem[nd][k].child \notin ResidentIn(UnallocBeforeLeaf(State(0, i)))

(* The catch block of alloc(aSize) in its first pass, up to line 169: the  *)
(* state and sLink after the for loop over the levels, f being the state   *)
(* in which the try block threw.                                            *)
RollbackBeforeLeaf(f, aEnd) ==
    rollback_levels([f EXCEPT !.exc = "none"], RootRef(AllocatedEnd(aEnd)),
                    AllocatedEnd(aEnd) % SUBTREE_CARDINALITY,
                    SUBTREE_CARDINALITY, 0)

(* C16: when a pool allocation fails in alloc, the entry whose child the   *)
(* catch block reads at line 169 of its first pass does not lie in a block  *)
(* that is on the pool's free list.                                         *)
C16_RollbackReadsNoReleasedBlock ==
    status = "run" =>
      \A n \in Sizes, g \in Grants, i \in Inds :
         LET f == alloc_walk(State(g, i), AllocatedEnd(m_End), Wrap(m_End + n))
         IN (/\ ~CapacityExceeded(m_Begin, m_End, n)
             /\ f.exc # "none"
             /\ ~f.fault
             /\ ~Stopped(RollbackBeforeLeaf(f, m_End).s)) =>
               RollbackBeforeLeaf(f, m_End).sLink.blk \notin
                  FreeSet(RollbackBeforeLeaf(f, m_End).s.mem,
                          RollbackBeforeLeaf(f, m_End).s.next)

(***************************************************************************)
(* The addressing formulas for any traits T: the shift/mask form of        *)
(* root_offset and mid_offset (src/main.cpp:93-103) and the division and   *)
(* modulo form of the walks of alloc and unalloc (src/main.cpp:130-143).   *)
(***************************************************************************)
MIDDLE_SIZE_T(T) == T.CHUNK_SIZE \div T.SIZEOF_LINK

SUBTREE_CARDINALITY_T(T) == T.CHUNK_SIZE * Pow(MIDDLE_SIZE_T(T), T.HEIGHT - 2)

CARDINALITY_T(T) == T.L0_SIZE * SUBTREE_CARDINALITY_T(T)

root_offset_T(T, aPos) ==
    LET sShift == Log(T.CHUNK_SIZE) + (T.HEIGHT - 2) * Log(MIDDLE_SIZE_T(T))
    IN BitAnd(Shr(aPos, sShift), T.L0_SIZE - 1)

mid_offset_T(T, aPos, aLvl) ==
    LET sShift == Log(T.CHUNK_SIZE) + (T.HEIGHT - 2 - aLvl) * Log(MIDDLE_SIZE_T(T))
    IN BitAnd(Shr(aPos, sShift), MIDDLE_SIZE_T(T) - 1)

(* sAllocatedEnd / sSubtreeCardinality % T::L0_SIZE *)
walk_root_T(T, aPos) == (aPos \div SUBTREE_CARDINALITY_T(T)) % T.L0_SIZE

(* The index the for loop of the walk uses in pass h, entered with         *)
(* sNextOffsetVector and sSubtreeCardinality as pass k found them.         *)
RECURSIVE walk_index_T(_, _, _, _, _)
walk_index_T(T, sNextOffsetVector, sSubtreeCardinality, k, h) ==
    IF k = h
    THEN sNextOffsetVector \div (sSubtreeCardinality \div MIDDLE_SIZE_T(T))
    ELSE walk_index_T(T, sNextOffsetVector % (sSubtreeCardinality \div MIDDLE_SIZE_T(T)),
                      sSubtreeCardinality \div MIDDLE_SIZE_T(T), k + 1, h)

IsPow2(x) == x = Pow(2, Log(x))

(* The static_asserts of src/main.cpp:60-64. *)
ValidTraits(T) ==
    /\ IsPow2(T.CHUNK_SIZE)
    /\ IsPow2(T.L0_SIZE)
    /\ T.CHUNK_SIZE >= T.SIZEOF_LINK * 2
    /\ T.L0_SIZE >= 2
    /\ T.HEIGHT >= 2

(* Traits with 4- and 8-byte pointers, up to two interior levels. *)
TraitsSet ==
    {T \in [CHUNK_SIZE : {16, 24, 32}, L0_SIZE : {2, 3, 4}, HEIGHT : 1..4,
            SIZEOF_LINK : {8, 16}] : ValidTraits(T)}

(* Offsets over two rounds of the ring, in steps of half a chunk. *)
OffsetsOf(T) ==
    {q * (T.CHUNK_SIZE \div 2) : q \in 0..(4 * (CARDINALITY_T(T) \div T.CHUNK_SIZE))}

AddressingAgrees ==
    \A T \in TraitsSet : \A p \in OffsetsOf(T) :
       /\ walk_root_T(T, p) = root_offset_T(T, p)
       /\ \A l \in 1..(T.HEIGHT - 2) :
             walk_index_T(T, p % SUBTREE_CARDINALITY_T(T),
                          SUBTREE_CARDINALITY_T(T), 0, l - 1) = mid_offset_T(T, p, l)

(* C17: the root index and the child indices that the walks of alloc and   *)
(* unalloc compute by division and modulo equal root_offset(p) and          *)
(* mid_offset(p, l) for the offsets of every traits of TraitsSet; and in    *)
(* every state the entry alloc stores a new chunk in is the leaf entry the  *)
(* shift/mask path selects for its offset, and the blocks unalloc releases  *)
(* are those the shift/mask path finds for the chunks it gives up.          *)
C17_AddressingAgreement ==
    /\ AddressingAgrees
    /\ status = "run" =>
          \A n \in Sizes :
             /\ LET a == alloc(State(MaxArenas, WILD), n)
                IN a.out = "ok" =>
                     \A b \in ChunksIn(AllocatedEnd(m_End), m_End + n) :
                        /\ RefOK(a.s, LeafEntry(a.s, b))
                        /\ RdChild(a.s, LeafEntry(a.s, b)) = a.s.made[b]
                        /\ RdSize(a.s, LeafEntry(a.s, b)) = CHUNK_SIZE
             /\ n <= m_End - m_Begin =>
                  LET u == unalloc(State(0, WILD), n)
                  IN /\ u.out = "ok"
                     /\ \A b \in ChunksIn(AllocatedEnd(m_End - n), m_End) :
                           /\ RdChild(State(0, WILD), LeafEntry(State(0, WILD), b))
                                 \in Resident(mem, m_Next, arenas)
                           /\ RdChild(State(0, WILD), LeafEntry(State(0, WILD), b))
                                 \notin ResidentIn(u.s)

(* An unalloc has walked chunks past the first round of the ring, the      *)
(* window starting in the second subtree.                                   *)
C17_WalksPastFirstRound ==
    /\ call = [op |-> "unalloc", out |-> "ok"]
    /\ m_End > CARDINALITY
    /\ m_Begin >= SUBTREE_CARDINALITY

(* Sizes for which m_End + aSize can pass the top of the machine word. *)
HugeSizes == {WORD - CHUNK_SIZE, WORD - Step}

(* C18: alloc(size) fails with the capacity error whenever, in unbounded   *)
(* integers, end + size - align_down(begin, SUBTREE_CARDINALITY) >          *)
(* CARDINALITY, also for sizes that make end + size wrap around the         *)
(* machine word; a successful alloc(size) with size > 0 leaves end larger   *)
(* than it was.                                                             *)
C18_CapacityCheckSurvivesWraparound ==
    status = "run" =>
      \A n \in Sizes \cup HugeSizes, g \in Grants, i \in Inds :
         LET r == alloc(State(g, i), n)
         IN /\ m_End + n - AlignDown(m_Begin, SUBTREE_CARDINALITY) > CARDINALITY =>
                  r.out = "capacity"
            /\ r.out = "ok" => r.s.end > m_End

(* The number of links from aNext to the null that ends the list, or WILD  *)
(* if the list does not end within the blocks there are.                    *)
RECURSIVE ListWalk(_, _, _, _)
ListWalk(aMem, aNext, n, aLength) ==
    IF aNext = NULL THEN aLength
    ELSE IF n = 0 \/ aNext \notin 1..MaxBlocks THEN WILD
    ELSE ListWalk(aMem, aMem[aNext][0].child, n - 1, aLength + 1)

ListLength(aMem, aNext, n) == ListWalk(aMem, aNext, n, 0)

(* The blocks of the arena obtained after aArenas others. *)
ArenaBlocks(aArenas) == (COUNT * aArenas + 1)..(COUNT * aArenas + COUNT)

(* C19: in every state of the pool reached by alloc() and free() of held   *)
(* blocks, the free list ends, holds no block twice, and its length plus    *)
(* the live-block counter is COUNT times the number of arenas; alloc()      *)
(* obtains an arena only when it finds the free list empty, and then one    *)
(* arena, whose COUNT blocks are distinct from every block there was and    *)
(* all go on the free list; free() obtains or returns no arena, and no      *)
(* call lowers the number of arenas.                                        *)
C19_PoolAccounting ==
    /\ ListLength(mem, m_Next, MaxBlocks) = Cardinality(FreeSet(mem, m_Next))
    /\ Cardinality(FreeSet(mem, m_Next)) + m_Count = COUNT * arenas
    /\ FreeSet(mem, m_Next) \cup held = 1..(COUNT * arenas)
    /\ \A g \in Grants :
          LET r == internal_alloc(State(g, WILD))
              f == fill(State(g, WILD))
          IN /\ r.s.arenas >= arenas
             /\ r.s.arenas # arenas =>
                   /\ m_Next = NULL
                   /\ r.s.arenas = arenas + 1
                   /\ FreeSet(r.s.mem, r.s.next) \cup {r.r} = ArenaBlocks(arenas)
             /\ ~Stopped(f) =>
                   /\ FreeSet(f.mem, f.next) = FreeSet(mem, m_Next) \cup ArenaBlocks(arenas)
                   /\ ListLength(f.mem, f.next, MaxBlocks) =
                         ListLength(mem, m_Next, MaxBlocks) + COUNT
                   /\ ArenaBlocks(arenas) \cap (1..(COUNT * arenas)) = {}
    /\ \A b \in held : internal_free(State(0, WILD), b).arenas = arenas

(* A block has been released after the pool obtained a second arena. *)
C19_SecondArenaSeen ==
    /\ arenas > 1
    /\ call = [op |-> "free", out |-> "ok"]

====
